---- MODULE Spec2Model ----
(***************************************************************************)
(* Model of the audio bridge of neonpush/elevenlabs-realtime-agent:        *)
(*   - ConnectionPool    (connection-pool.ts, src/unnamed/part_003)        *)
(*   - ElevenLabsSession (elevenlabs-session.ts, src/unnamed/part_005)     *)
(* Node.js runs every handler to completion on one event loop, so each     *)
(* action below is one handler (or one synchronous stretch of an async     *)
(* function up to its next await).                                         *)
(***************************************************************************)
EXTENDS Integers, Sequences, FiniteSets, TLC

(***************************************************************************)
(* Bounds of the model                                                     *)
(***************************************************************************)
\* number of WebSocket constructions the pool may perform in one behaviour
MaxSockets == 6

\* number of socket failures (failed handshakes, closes by the peer) in one behaviour
MaxFaults == 1

\* number of provider `audio` events in one behaviour
MaxFrames == 3

\* number of interruption triggers in one behaviour
MaxClears == 2

\* longest run of alike telephony frames fed to the speech detector
MaxRun == 16

\* number of provider `ping` events in one behaviour
MaxPings == 2

\* largest ping_ms of a `ping` event, in clock steps
MaxPingMs == 2

\* the Session's clock stops advancing at this value
MaxClock == 3

\* number of samples of the longest all-zero provider payload
MaxSamples == 2

\* number of malformed inbound messages in one behaviour
MaxMalformed == 2

\* clock ticks that make up one pacing delay of the drain loop
PaceTicks == 2

\* telephony `start` events one Session is sent
MaxStarts == 2

\* call ids handed to the pool
CallIds == {"A", "B"}

\* "no call id": PooledConnection.callSid is undefined
NoCall == "none"

(***************************************************************************)
(* Program constants of ConnectionPool                                     *)
(***************************************************************************)
MAX_IDLE_TIME == 300000

HOT_POOL_SIZE == 3

MAX_CONNECTION_AGE == 1800000

(***************************************************************************)
(* Program constants of ElevenLabsSession                                  *)
(***************************************************************************)
silenceThreshold == 15

minSpeechFrames == 8

\* Date.now() moves forward by one of these amounts between two handlers: long
\* enough to make a connection idle but not old, or long enough to make it old
TimeSteps == {MAX_CONNECTION_AGE - MAX_IDLE_TIME, MAX_CONNECTION_AGE + 1}

\* the clock stops advancing past this value
MaxNow == MAX_CONNECTION_AGE + 1

Sock == 1..MaxSockets

VARIABLES
  hasCreds,        \* ELEVENLABS_AGENT_ID and ELEVENLABS_API_KEY are both set
  wsCount,         \* number of `new WebSocket(...)` calls made by the pool
  readyState,      \* ws.readyState of each socket the pool constructed
  initSent,        \* conversation_initiation_client_data was sent on the socket
  pendingCold,     \* createNewConnection calls whose promise is not resolved yet
  hotConnections,  \* ConnectionPool.hotConnections (array of PooledConnection)
  connections,     \* ConnectionPool.connections (Map callSid -> PooledConnection)
  now,             \* Date.now()
  faults,          \* socket failures so far
  quiet,           \* maintenance ticks since a socket last dropped out of the hot pool
  released,        \* the (socket, call id) entries releaseConnection / removeConnection deleted
  lastOp           \* the handler that ran last, its argument and its result

\* one ElevenLabsSession
VARIABLES
  phase,                    \* how far the telephony `start` event has been processed
  elevenLabsWs,             \* this.elevenLabsWs: "null" or "socket"
  elState,                  \* readyState of the provider socket the Session opened
  isConnected,              \* this.isConnected
  timeoutArmed,             \* the 10 s connectionTimeout timer is pending
  audioQueue,               \* this.audioQueue
  isProcessingAudio,        \* this.isProcessingAudio
  drains,                   \* processAudioQueue calls suspended in their pacing delay
  isUserSpeaking,           \* this.isUserSpeaking
  consecutiveSpeechFrames,  \* this.consecutiveSpeechFrames
  consecutiveSilentChunks,  \* this.consecutiveSilentChunks
  nextFrame,                \* provider `audio` events received so far
  sent,                     \* frames sent to the telephony socket as `media`, in order
  clearCount,               \* `clear` messages sent to the telephony socket
  activityCount,            \* `user_activity` messages sent to the provider socket
  dropped,                  \* frames that were queued when an interruption was handled
  outputFormat,             \* this.outputFormat
  metadataReceived,         \* conversation_initiation_metadata has been handled
  speechRun,                \* speech-like frames in a row at the end of the frames forwarded
  silenceRun                \* non-speech-like frames in a row at the end of the frames forwarded

\* the keep-alive of one ElevenLabsSession
VARIABLES
  clock,        \* the time of the Session's event loop
  nextPing,     \* provider `ping` events received so far
  pongTimers,   \* pending `setTimeout` callbacks of the ping case
  pongs         \* event_id of every `pong` sent to the provider socket, in order

\* the lead of one ElevenLabsSession and what it told the provider about it
VARIABLES
  lead,         \* this.lead: NoLead, or the Lead row found for the caller
  initiations   \* dynamic_variables of every conversation_initiation_client_data sent

\* one sample taken through the codec
VARIABLES
  sample,       \* a 16-bit linear PCM sample
  mulaw,        \* linearToMulaw(sample), once computed
  linear,       \* mulawToLinear(mulaw), once computed
  codecStep     \* "input", then "encoded", then "decoded"

\* the payloads on the outbound audio path of one ElevenLabsSession
VARIABLES
  payloadOf,    \* the bytes of audio_event.audio_base_64 of each `audio` event, in order
  delivered     \* every `media` message sent to the telephony socket, in order

\* inbound data that is not JSON
VARIABLES
  malformed     \* inbound messages whose JSON.parse threw, so far

\* the drain loops that an interruption found in flight
VARIABLES
  stale,        \* suspended processAudioQueue calls that were in flight at an interruption
  staleSent     \* the frames such calls have sent after it

\* the pacing delays of the drain loops
VARIABLES
  timers,       \* ticks left of the pacing delay of each suspended processAudioQueue call
  gap           \* ticks since the last `media` message was sent, up to a full delay

\* which function constructed a socket
VARIABLES
  hotMade,      \* the sockets constructed by createHotConnection
  coldMade      \* the sockets constructed by createNewConnection, with their call id

\* the teardown of the Session
VARIABLES
  tornDown,     \* cleanup() has run
  wasOpen       \* the provider socket constructed last has had its `open` event

\* every provider socket one Session constructs
VARIABLES
  provider,     \* readyState of each provider socket the Session constructed, in order
  current,      \* this.elevenLabsWs: the index of the socket it refers to, 0 for null
  loading,      \* loadLeadData() calls that have not settled
  delaying,     \* 100 ms pre-connect timers that have not fired
  starts        \* telephony `start` events handled so far

poolVars == <<hasCreds, wsCount, readyState, initSent, pendingCold,
              hotConnections, connections, now, faults, quiet, released>>

sessVars == <<phase, elevenLabsWs, elState, isConnected, timeoutArmed, audioQueue,
              isProcessingAudio, drains, isUserSpeaking, consecutiveSpeechFrames,
              consecutiveSilentChunks, nextFrame, sent, clearCount, activityCount,
              dropped, outputFormat, metadataReceived, speechRun, silenceRun>>

pingVars == <<clock, nextPing, pongTimers, pongs>>

leadVars == <<lead, initiations>>

codecVars == <<sample, mulaw, linear, codecStep>>

dispatchVars == <<payloadOf, delivered>>

parseVars == <<malformed>>

drainVars == <<stale, staleSent>>

paceVars == <<timers, gap>>

originVars == <<hotMade, coldMade>>

teardownVars == <<tornDown, wasOpen>>

repeatVars == <<provider, current, loading, delaying, starts>>

vars == <<poolVars, sessVars, pingVars, leadVars, codecVars, dispatchVars, parseVars,
          drainVars,
          paceVars,
          originVars,
          teardownVars,
          repeatVars, lastOp>>

\* connections.get(callSid) === undefined
NoConn == [ws |-> 0, isReady |-> FALSE, callSid |-> NoCall, createdAt |-> 0, lastUsed |-> 0]

\* interface PooledConnection; ws is the identity of the socket (and of the record)
PooledConnection(k, ready, c, t) ==
  [ws |-> k, isReady |-> ready, callSid |-> c, createdAt |-> t, lastUsed |-> t]

\* lastOp: the operation, its call id, the socket it returned or resolved with,
\* and how it ended: "reused" | "hot" | "pending" | "opened" | "null" | "none"
Op(op, c, k, r) == [op |-> op, callSid |-> c, ws |-> k, result |-> r]

\* the results with which getOrCreateConnection hands a socket to its caller
Returned == {"reused", "hot", "opened"}

\* the sockets held by the hot array / by the assigned map
HotSockets == {hotConnections[i].ws : i \in 1..Len(hotConnections)}

AssignedSockets == {connections[c].ws : c \in CallIds} \ {0}

(***************************************************************************)
(* ConnectionPool helpers                                                  *)
(***************************************************************************)
\* ws.close(): an open or connecting socket starts closing, otherwise no-op
WsClose(st) == IF st \in {"CONNECTING", "OPEN"} THEN "CLOSING" ELSE st

\* hotConnections.filter(c => c !== connection)
RemoveHotConnection(hot, k) == SelectSeq(hot, LAMBDA x : x.ws # k)

\* getHotConnection: the candidates, in array order
HotAvailable ==
  SelectSeq(hotConnections,
            LAMBDA conn : /\ conn.isReady
                          /\ readyState[conn.ws] = "OPEN"
                          /\ conn.callSid = NoCall)

\* (mutant of GetHotConnection: the newest candidate is taken, not the oldest)
GetHotConnectionNewest ==
  IF Len(HotAvailable) > 0 THEN HotAvailable[Len(HotAvailable)] ELSE NoConn

\* getHotConnection: the connection it returns, NoConn for null
GetHotConnection == IF Len(HotAvailable) > 0 THEN HotAvailable[1] ELSE NoConn

\* createHotConnection called n times: how many sockets it really constructs
HotCreated(n) == IF hasCreds THEN n ELSE 0

\* the ids of the next m sockets to be constructed
NewIds(m) == (wsCount + 1)..(wsCount + m)

\* createHotConnection x m: effect on the variables it touches, applied on top
\* of the intermediate values rs (readyState) and hot (hotConnections)
CreateHotConnections(m, rs, hot) ==
  /\ wsCount' = wsCount + m
  /\ readyState' = [k \in Sock |-> IF k \in NewIds(m) THEN "CONNECTING" ELSE rs[k]]
  /\ hotConnections' =
       hot \o [i \in 1..m |-> PooledConnection(wsCount + i, FALSE, NoCall, now)]

(***************************************************************************)
(* ElevenLabsSession: state after the constructor                          *)
(***************************************************************************)
SessionInit ==
  /\ phase = "created"
  /\ elevenLabsWs = "null"
  /\ elState = "NONE"
  /\ isConnected = FALSE
  /\ timeoutArmed = FALSE
  /\ audioQueue = <<>>
  /\ isProcessingAudio = FALSE
  /\ drains = 0
  /\ isUserSpeaking = FALSE
  /\ consecutiveSpeechFrames = 0
  /\ consecutiveSilentChunks = 0
  /\ nextFrame = 0
  /\ sent = <<>>
  /\ clearCount = 0
  /\ activityCount = 0
  /\ dropped = {}
  /\ outputFormat = "pcm_8000"
  /\ metadataReceived = FALSE
  /\ speechRun = 0
  /\ silenceRun = 0

(***************************************************************************)
(* Initial state: the singleton right after `new ConnectionPool()`, whose  *)
(* constructor has called preWarmHotPool().                                *)
(***************************************************************************)
PoolInit ==
  /\ hasCreds \in BOOLEAN
  /\ wsCount = HotCreated(HOT_POOL_SIZE)
  /\ readyState = [k \in Sock |-> IF k <= HotCreated(HOT_POOL_SIZE)
                                  THEN "CONNECTING" ELSE "NONE"]
  /\ initSent = [k \in Sock |-> FALSE]
  /\ pendingCold = {}
  /\ hotConnections = [i \in 1..HotCreated(HOT_POOL_SIZE) |->
                         PooledConnection(i, FALSE, NoCall, 0)]
  /\ connections = [c \in CallIds |-> NoConn]
  /\ now = 0
  /\ faults = 0
  /\ quiet = 0
  /\ released = {}

\* no ping has been received
PingInit ==
  /\ clock = 0
  /\ nextPing = 0
  /\ pongTimers = {}
  /\ pongs = <<>>

\* `private lead: Lead | null = null`, nothing sent yet
LeadInit ==
  /\ lead = [f \in {} |-> "null"]
  /\ initiations = <<>>

\* no sample is in the codec
CodecIdle ==
  /\ sample = 0
  /\ mulaw = 0
  /\ linear = 0
  /\ codecStep = "input"

\* no provider audio has been received
DispatchInit ==
  /\ payloadOf = <<>>
  /\ delivered = <<>>

Init ==
  /\ PoolInit
  /\ SessionInit
  /\ PingInit
  /\ LeadInit
  /\ CodecIdle
  /\ DispatchInit
  /\ malformed = 0
  /\ stale = 0
  /\ staleSent = {}
  /\ timers = <<>>
  /\ gap = PaceTicks
  /\ hotMade = 1..HotCreated(HOT_POOL_SIZE)
  /\ coldMade = {}
  /\ tornDown = FALSE
  /\ wasOpen = FALSE
  /\ provider = <<>>
  /\ current = 0
  /\ loading = 0
  /\ delaying = 0
  /\ starts = 0
  /\ lastOp = Op("event", NoCall, 0, "none")

(***************************************************************************)
(* getOrCreateConnection(callSid)                                          *)
(***************************************************************************)
\* (mutant of AcquireReuse: lastUsed is not refreshed)
AcquireReuseNoTouch(c) ==
  /\ connections' = connections
  /\ lastOp' = Op("acquire", c, connections[c].ws, "reused")
  /\ UNCHANGED <<hasCreds, released, wsCount, readyState, initSent, pendingCold,
                 hotConnections, now, faults, quiet>>

\* (a) the call already has an OPEN connection: touch it and return it
AcquireReuse(c) ==
  /\ connections' = [connections EXCEPT ![c].lastUsed = now]
  /\ lastOp' = Op("acquire", c, connections[c].ws, "reused")
  /\ UNCHANGED <<hasCreds, released, wsCount, readyState, initSent, pendingCold,
                 hotConnections, now, faults, quiet>>

\* (mutant of HotAfterTake: the taken connection stays in the array)
HotAfterTakeLeaves(h) == hotConnections

\* getHotConnection's `this.hotConnections = this.hotConnections.filter(...)`
HotAfterTake(h) == RemoveHotConnection(hotConnections, h.ws)

\* (mutant of AcquireHot: two replacements are warmed for one taken connection)
AcquireHotWarmsTwo(c, h) ==
  /\ wsCount + HotCreated(2) <= MaxSockets
  /\ CreateHotConnections(HotCreated(2), readyState, HotAfterTake(h))
  /\ connections' = [connections EXCEPT ![c] = [h EXCEPT !.callSid = c, !.lastUsed = now]]
  /\ lastOp' = Op("acquire", c, h.ws, "hot")
  /\ UNCHANGED <<hasCreds, released, initSent, pendingCold, now, faults, quiet>>

\* (b) take a hot connection, tag it, record it, start warming a replacement
AcquireHot(c, h) ==
  /\ wsCount + HotCreated(1) <= MaxSockets
  /\ CreateHotConnections(HotCreated(1), readyState, HotAfterTake(h))
  /\ connections' = [connections EXCEPT ![c] = [h EXCEPT !.callSid = c, !.lastUsed = now]]
  /\ lastOp' = Op("acquire", c, h.ws, "hot")
  /\ UNCHANGED <<hasCreds, released, initSent, pendingCold, now, faults, quiet>>

\* (c) createNewConnection: construct a socket and wait for `open` or `error`
AcquireCold(c) ==
  IF ~hasCreds
  THEN /\ lastOp' = Op("acquire", c, 0, "null")
       /\ UNCHANGED <<hasCreds, released, wsCount, readyState, initSent, pendingCold,
                      hotConnections, connections, now, faults, quiet>>
  ELSE /\ wsCount + 1 <= MaxSockets
       /\ wsCount' = wsCount + 1
       /\ readyState' = [readyState EXCEPT ![wsCount + 1] = "CONNECTING"]
       /\ pendingCold' = pendingCold \cup {[ws |-> wsCount + 1, callSid |-> c, waited |-> 0]}
       /\ lastOp' = Op("acquire", c, wsCount + 1, "pending")
       /\ UNCHANGED <<hasCreds, released, initSent, hotConnections, connections, now, faults, quiet>>

GetOrCreateConnection(c) ==
  IF connections[c] # NoConn /\ readyState[connections[c].ws] = "OPEN"
  THEN AcquireReuse(c)
  ELSE IF GetHotConnection # NoConn
       THEN AcquireHot(c, GetHotConnection)
       ELSE AcquireCold(c)

(***************************************************************************)
(* Socket events                                                           *)
(***************************************************************************)
\* the pending createNewConnection call whose socket is k (at most one)
PendingOf(k) == {p \in pendingCold : p.ws = k}

\* ws.on('open') of createHotConnection: connection.isReady = true; ws.send(init)
HotOpen(k) ==
  /\ hotConnections' = [i \in 1..Len(hotConnections) |->
                          IF hotConnections[i].ws = k
                          THEN [hotConnections[i] EXCEPT !.isReady = TRUE]
                          ELSE hotConnections[i]]
  /\ initSent' = [initSent EXCEPT ![k] = TRUE]
  /\ lastOp' = Op("event", NoCall, 0, "none")
  /\ UNCHANGED <<pendingCold, connections>>

\* ws.on('open') of createNewConnection: record the connection, resolve(ws)
ColdOpen(k, p) ==
  /\ connections' = [connections EXCEPT
                       ![p.callSid] = PooledConnection(k, TRUE, p.callSid, now)]
  /\ pendingCold' = pendingCold \ {p}
  /\ lastOp' = Op("open", p.callSid, k, "opened")
  /\ UNCHANGED <<hotConnections, initSent>>

SocketOpen(k) ==
  /\ readyState[k] = "CONNECTING"
  /\ readyState' = [readyState EXCEPT ![k] = "OPEN"]
  /\ IF PendingOf(k) = {} THEN HotOpen(k) ELSE \E p \in PendingOf(k) : ColdOpen(k, p)
  /\ UNCHANGED <<hasCreds, released, wsCount, now, faults, quiet>>

\* a socket dropping out of the hot pool between two maintenance ticks
QuietAfterLoss(k) == IF k \in HotSockets THEN 0 ELSE quiet

\* ws.on('error') followed by ws.on('close'): the opening handshake failed (ws
\* emits both in the same turn). createHotConnection's handlers remove the
\* connection from the hot array, createNewConnection's resolve(null). An
\* error on an open socket runs the same handlers as SocketClose; on a socket
\* the pool has dropped the handlers find nothing to remove.
SocketError(k) ==
  /\ readyState[k] = "CONNECTING"
  /\ k \in HotSockets \cup {p.ws : p \in pendingCold}
  /\ faults < MaxFaults
  /\ faults' = faults + 1
  /\ readyState' = [readyState EXCEPT ![k] = "CLOSED"]
  /\ hotConnections' = RemoveHotConnection(hotConnections, k)
  /\ quiet' = QuietAfterLoss(k)
  /\ pendingCold' = pendingCold \ PendingOf(k)
  /\ lastOp' = IF PendingOf(k) # {}
               THEN Op("error", (CHOOSE p \in PendingOf(k) : TRUE).callSid, 0, "null")
               ELSE Op("event", NoCall, 0, "none")
  /\ UNCHANGED <<hasCreds, released, wsCount, initSent, connections, now>>

\* ws.on('close'): the peer closed an open socket that the pool still holds.
\* Only createHotConnection registers a close handler (removeHotConnection);
\* a socket of createNewConnection is never in the hot array. Every close()
\* the pool itself calls comes with the removal of the connection from its
\* collection, so the `close` event that completes it (and the one of a socket
\* the pool already dropped) finds nothing to remove: such a socket rests in
\* the state it has.
SocketClose(k) ==
  /\ readyState[k] = "OPEN"
  /\ k \in HotSockets \cup AssignedSockets
  /\ faults < MaxFaults
  /\ faults' = faults + 1
  /\ readyState' = [readyState EXCEPT ![k] = "CLOSED"]
  /\ hotConnections' = RemoveHotConnection(hotConnections, k)
  /\ quiet' = QuietAfterLoss(k)
  /\ lastOp' = Op("event", NoCall, 0, "none")
  /\ UNCHANGED <<hasCreds, released, wsCount, initSent, pendingCold, connections, now>>

\* time passes between two handlers
AdvanceTime(d) ==
  /\ now + d <= MaxNow
  /\ now' = now + d
  /\ lastOp' = Op("event", NoCall, 0, "none")
  /\ UNCHANGED <<hasCreds, released, wsCount, readyState, initSent, pendingCold,
                 hotConnections, connections, faults, quiet>>

(***************************************************************************)
(* Background maintenance: setInterval(cleanupIdleConnections +            *)
(* maintainHotPool, 10 s) and setInterval(refreshHotPool, 15 min)          *)
(***************************************************************************)
\* ws.close() guarded by `readyState === OPEN`, applied to the sockets in S
CloseOpen(rs, S) ==
  [k \in Sock |-> IF k \in S /\ rs[k] = "OPEN" THEN "CLOSING" ELSE rs[k]]

\* cleanupIdleConnections: is the assigned connection evicted
AssignedEvicted(conn) ==
  \/ (now - conn.lastUsed) > MAX_IDLE_TIME
  \/ (now - conn.createdAt) > MAX_CONNECTION_AGE
  \/ readyState[conn.ws] # "OPEN"

\* (mutant of HotEvicted: a connection that is not open is kept)
HotEvictedOnlyOld(conn) == (now - conn.createdAt) > MAX_CONNECTION_AGE

\* cleanupIdleConnections: is the hot connection evicted
HotEvicted(conn) ==
  \/ (now - conn.createdAt) > MAX_CONNECTION_AGE
  \/ readyState[conn.ws] # "OPEN"

\* the call ids whose map entry cleanupIdleConnections deletes
EvictedCalls == {c \in CallIds : connections[c] # NoConn /\ AssignedEvicted(connections[c])}

\* the hot array after cleanupIdleConnections
HotKept == SelectSeq(hotConnections, LAMBDA conn : ~HotEvicted(conn))

\* the sockets cleanupIdleConnections drops from either collection
EvictedSockets ==
  {connections[c].ws : c \in EvictedCalls}
    \cup {hotConnections[i].ws : i \in {j \in 1..Len(hotConnections) :
                                          HotEvicted(hotConnections[j])}}

\* maintainHotPool: `needed`, computed on the array cleanup left behind
Needed(hot, rs) ==
  HOT_POOL_SIZE - Len(SelectSeq(hot, LAMBDA conn : rs[conn.ws] = "OPEN" /\ conn.isReady))

\* (mutant of TopUp: the loop stops one short)
TopUpShort(hot, rs) == IF Needed(hot, rs) > 1 THEN HotCreated(Needed(hot, rs) - 1) ELSE 0

\* maintainHotPool: how many sockets it constructs
TopUp(hot, rs) == IF Needed(hot, rs) > 0 THEN HotCreated(Needed(hot, rs)) ELSE 0

\* one tick of the 10 s interval: cleanupIdleConnections(); maintainHotPool()
MaintenanceTick ==
  LET rs == CloseOpen(readyState, EvictedSockets) IN
  /\ wsCount + TopUp(HotKept, rs) <= MaxSockets
  /\ CreateHotConnections(TopUp(HotKept, rs), rs, HotKept)
  /\ connections' = [c \in CallIds |-> IF c \in EvictedCalls THEN NoConn ELSE connections[c]]
  /\ pendingCold' = {[p EXCEPT !.waited = IF p.waited < 2 THEN p.waited + 1 ELSE 2] : p \in pendingCold}
  /\ quiet' = IF quiet < 2 THEN quiet + 1 ELSE 2
  /\ lastOp' = Op("tick", NoCall, 0, "none")
  /\ UNCHANGED <<hasCreds, released, initSent, now, faults>>

\* refreshHotPool: close every open hot socket, empty the array, pre-warm again
RefreshHotPool ==
  /\ wsCount + HotCreated(HOT_POOL_SIZE) <= MaxSockets
  /\ CreateHotConnections(HotCreated(HOT_POOL_SIZE),
                          CloseOpen(readyState, HotSockets), <<>>)
  /\ quiet' = 0
  /\ lastOp' = Op("refresh", NoCall, 0, "none")
  /\ UNCHANGED <<hasCreds, released, initSent, pendingCold, connections, now, faults>>

\* (mutant of ReleaseConnection: the socket is closed, the entry is kept)
ReleaseConnectionKeepsEntry(c) ==
  /\ readyState' = IF connections[c] # NoConn
                    THEN CloseOpen(readyState, {connections[c].ws}) ELSE readyState
  /\ lastOp' = Op("release", c, 0, "none")
  /\ UNCHANGED <<hasCreds, released, wsCount, initSent, pendingCold, hotConnections,
                 connections, now, faults, quiet>>

\* releaseConnection(callSid)
ReleaseConnection(c) ==
  /\ IF connections[c] # NoConn
     THEN /\ readyState' = CloseOpen(readyState, {connections[c].ws})
          /\ connections' = [connections EXCEPT ![c] = NoConn]
          /\ released' = released \cup {[ws |-> connections[c].ws, callSid |-> c]}
     ELSE UNCHANGED <<readyState, connections, released>>
  /\ lastOp' = Op("release", c, 0, "none")
  /\ UNCHANGED <<hasCreds, wsCount, initSent, pendingCold, hotConnections, now, faults, quiet>>

\* removeConnection(callSid): as releaseConnection, with an unguarded ws.close()
RemoveConnection(c) ==
  /\ IF connections[c] # NoConn
     THEN /\ readyState' = [readyState EXCEPT
                             ![connections[c].ws] = WsClose(readyState[connections[c].ws])]
          /\ connections' = [connections EXCEPT ![c] = NoConn]
          /\ released' = released \cup {[ws |-> connections[c].ws, callSid |-> c]}
     ELSE UNCHANGED <<readyState, connections, released>>
  /\ lastOp' = Op("release", c, 0, "none")
  /\ UNCHANGED <<hasCreds, wsCount, initSent, pendingCold, hotConnections, now, faults, quiet>>

\* the pool with failing sockets, on a clock that stands still
PoolNext ==
  \/ \E c \in CallIds : GetOrCreateConnection(c)
  \/ \E c \in CallIds : ReleaseConnection(c)
  \/ \E c \in CallIds : RemoveConnection(c)
  \/ \E k \in Sock : SocketOpen(k)
  \/ \E k \in Sock : SocketError(k)
  \/ \E k \in Sock : SocketClose(k)
  \/ MaintenanceTick
  \/ RefreshHotPool

\* the pool on a running clock, with sockets that do not fail
PoolClockNext ==
  \/ \E c \in CallIds : GetOrCreateConnection(c)
  \/ \E c \in CallIds : ReleaseConnection(c)
  \/ \E c \in CallIds : RemoveConnection(c)
  \/ \E k \in Sock : SocketOpen(k)
  \/ \E d \in TimeSteps : AdvanceTime(d)
  \/ MaintenanceTick
  \/ RefreshHotPool

PoolSpec == Init /\ [][PoolNext /\ UNCHANGED <<sessVars, pingVars, leadVars, codecVars, dispatchVars, parseVars, drainVars, paceVars, originVars, teardownVars, repeatVars>>]_vars

PoolClockSpec == Init /\ [][PoolClockNext /\ UNCHANGED <<sessVars, pingVars, leadVars, codecVars, dispatchVars, parseVars, drainVars, paceVars, originVars, teardownVars, repeatVars>>]_vars

(***************************************************************************)
(* Claims about the ConnectionPool                                         *)
(***************************************************************************)
\* the ready, open entries of the hot array
ReadyHot == {i \in 1..Len(hotConnections) :
               hotConnections[i].isReady /\ readyState[hotConnections[i].ws] = "OPEN"}

\* C4: every pooled connection has at most one owner: no socket is both in the
\* hot array and in the assigned map, none is recorded under two call ids (or
\* twice in the hot array), and the connection recorded for a call id is the
\* one tagged with that call id.
OneOwnerPerConnection ==
  /\ HotSockets \cap AssignedSockets = {}
  /\ \A c, d \in CallIds :
       (c # d /\ connections[c] # NoConn) => connections[c].ws # connections[d].ws
  /\ \A c \in CallIds : connections[c] # NoConn => connections[c].callSid = c
  /\ \A i, j \in 1..Len(hotConnections) :
       i # j => hotConnections[i].ws # hotConnections[j].ws
  /\ \A i \in 1..Len(hotConnections) : hotConnections[i].callSid = NoCall

\* C4 witness: both call ids hold a connection while the hot pool is stocked
BothCallsAssigned ==
  /\ connections["A"] # NoConn
  /\ connections["B"] # NoConn
  /\ readyState[connections["A"].ws] = "OPEN"
  /\ readyState[connections["B"].ws] = "OPEN"
  /\ Len(hotConnections) > 0

\* the case of C5: acquire for call id c, which has no assigned connection,
\* while the hot array holds a ready, open, untagged entry
HotPathCase(c) ==
  /\ lastOp'.op = "acquire"
  /\ lastOp'.callSid = c
  /\ connections[c] = NoConn
  /\ Len(HotAvailable) > 0

\* C5 as stated: in that case the acquire constructs no WebSocket at all
HotAcquireOpensNoSocket ==
  [][\A c \in CallIds : HotPathCase(c) => wsCount' = wsCount]_vars

\* C5 amended: in that case the acquire hands out a socket that existed before
\* the call and starts no cold-path connection; it constructs at most one
\* WebSocket, the replacement it pushes onto the hot array.
HotAcquireOpensOnlyReplacement ==
  [][\A c \in CallIds :
       HotPathCase(c) =>
         /\ lastOp'.result = "hot"
         /\ lastOp'.ws \in 1..wsCount
         /\ lastOp'.ws = HotAvailable[1].ws
         /\ pendingCold' = pendingCold
         /\ wsCount' <= wsCount + 1
         /\ \A k \in (wsCount + 1)..wsCount' :
              k \in {hotConnections'[i].ws : i \in 1..Len(hotConnections')}]_vars

\* C5 witness: a call was just served from the hot pool and its replacement
\* is warming up
ServedFromHotPool ==
  /\ lastOp.op = "acquire"
  /\ lastOp.result = "hot"
  /\ connections[lastOp.callSid].ws = lastOp.ws
  /\ Len(hotConnections) > 0
  /\ hotConnections[Len(hotConnections)].ws = wsCount
  /\ readyState[wsCount] = "CONNECTING"

\* C6: the hot array never holds more than HOT_POOL_SIZE connections
HotPoolWithinTarget == Len(hotConnections) <= HOT_POOL_SIZE

\* C6 witness: a maintenance tick has topped the pool up to the target while
\* one of its sockets is still connecting
ToppedUpByTick ==
  /\ lastOp.op = "tick"
  /\ wsCount > HOT_POOL_SIZE
  /\ Len(hotConnections) = HOT_POOL_SIZE
  /\ \E i \in 1..Len(hotConnections) : readyState[hotConnections[i].ws] = "CONNECTING"
  /\ ReadyHot # {}

\* C7: two maintenance ticks after a socket last dropped out of the hot pool,
\* once the sockets created for it have opened (no creation failing), the hot
\* array holds exactly HOT_POOL_SIZE ready open connections.
ConvergesWithinTwoCycles ==
  (/\ hasCreds
   /\ quiet >= 2
   /\ \A i \in 1..Len(hotConnections) : readyState[hotConnections[i].ws] # "CONNECTING")
  => /\ Cardinality(ReadyHot) = HOT_POOL_SIZE
     /\ Len(hotConnections) = HOT_POOL_SIZE

\* C7 witness: a hot socket was lost, two ticks went by, the pool is full again
RecoveredAfterLoss ==
  /\ hasCreds
  /\ faults > 0
  /\ quiet >= 2
  /\ wsCount > HOT_POOL_SIZE
  /\ Cardinality(ReadyHot) = HOT_POOL_SIZE

\* C8: a cold-path acquire is settled within 10 s. Maintenance ticks are 10 s
\* apart, so a call that has seen two of them has been pending for longer.
ColdAcquireSettlesInTime == \A p \in pendingCold : p.waited < 2

\* C9: every socket handed out by getOrCreateConnection has been sent
\* conversation_initiation_client_data
AcquiredSocketHasHandshake == lastOp.result \in Returned => initSent[lastOp.ws]

\* the case of C10: acquire for call id c, which has an OPEN assigned connection
ReuseCase(c) ==
  /\ lastOp'.op = "acquire"
  /\ lastOp'.callSid = c
  /\ connections[c] # NoConn
  /\ readyState[connections[c].ws] = "OPEN"

\* C10: in that case the acquire returns the assigned socket and changes
\* nothing but the lastUsed time of that connection
ReuseReturnsAssigned ==
  [][\A c \in CallIds :
       ReuseCase(c) =>
         /\ lastOp'.result = "reused"
         /\ lastOp'.ws = connections[c].ws
         /\ connections' = [connections EXCEPT ![c].lastUsed = now]
         /\ hotConnections' = hotConnections
         /\ readyState' = readyState
         /\ wsCount' = wsCount
         /\ pendingCold' = pendingCold]_vars

\* C10 witness: a connection assigned some time ago was just reused
ReusedLater ==
  /\ lastOp.op = "acquire"
  /\ lastOp.result = "reused"
  /\ connections[lastOp.callSid].ws = lastOp.ws
  /\ connections[lastOp.callSid].lastUsed = now
  /\ connections[lastOp.callSid].createdAt < now

\* C11: an acquire served from the hot pool takes the oldest (earliest
\* created) entry that is unassigned, ready and open, tags it with the call
\* id, records it in the assigned map, removes it from the hot pool and
\* starts exactly one replacement hot socket.
HotAcquireTakesOldest ==
  [][\A c \in CallIds :
       HotPathCase(c) =>
         \E i \in 1..Len(hotConnections) :
           LET h == hotConnections[i] IN
           /\ h.isReady /\ readyState[h.ws] = "OPEN" /\ h.callSid = NoCall
           /\ \A j \in 1..Len(HotAvailable) :
                /\ h.createdAt <= HotAvailable[j].createdAt
                /\ h.ws <= HotAvailable[j].ws
           /\ lastOp'.ws = h.ws
           /\ connections'[c].ws = h.ws
           /\ connections'[c].callSid = c
           /\ connections'[c].createdAt = h.createdAt
           /\ \A d \in CallIds \ {c} : connections'[d] = connections[d]
           /\ wsCount' = wsCount + 1
           /\ readyState'[wsCount'] = "CONNECTING"
           /\ hotConnections' =
                Append(SelectSeq(hotConnections, LAMBDA x : x.ws # h.ws),
                       PooledConnection(wsCount', FALSE, NoCall, now))]_vars

\* C11 witness: the call was served the entry created first although a ready
\* entry created later was in the hot pool as well
OldestTakenFirst ==
  /\ lastOp.op = "acquire"
  /\ lastOp.result = "hot"
  /\ connections[lastOp.callSid].ws = lastOp.ws
  /\ \E i \in ReadyHot :
       /\ hotConnections[i].callSid = NoCall
       /\ hotConnections[i].createdAt > connections[lastOp.callSid].createdAt

\* the step is a release (releaseConnection or removeConnection) for call id c
ReleaseCase(c) ==
  /\ lastOp'.op = "release"
  /\ lastOp'.callSid = c

\* C12: release(callId) removes the entry of that call id and leaves its
\* socket closing or closed, touching nothing else; with no entry for the call
\* id (so also when repeated) it changes nothing and closes nothing; and no
\* later acquire hands out a socket that was released.
ReleaseIsFinal ==
  [][/\ \A c \in CallIds :
          ReleaseCase(c) =>
            /\ connections'[c] = NoConn
            /\ \A d \in CallIds \ {c} : connections'[d] = connections[d]
            /\ hotConnections' = hotConnections
            /\ pendingCold' = pendingCold
            /\ wsCount' = wsCount
            /\ \A k \in Sock :
                 IF connections[c] # NoConn /\ k = connections[c].ws
                 THEN readyState'[k] \in {"CLOSING", "CLOSED"}
                 ELSE readyState'[k] = readyState[k]
     /\ lastOp'.result \in Returned => \A r \in released' : r.ws # lastOp'.ws]_vars

\* C12 witness: a call id whose socket was released has been handed another
\* socket by a later acquire, and the released one is closing
FreshSocketAfterRelease ==
  /\ lastOp.result \in Returned
  /\ connections[lastOp.callSid].ws = lastOp.ws
  /\ \E r \in released :
       /\ r.callSid = lastOp.callSid
       /\ r.ws # lastOp.ws
       /\ readyState[r.ws] = "CLOSING"

\* C13: a socket that errored or was closed by the peer has no entry left in
\* either collection, the hot pool or the assigned map.
NoEntryForClosedSocket ==
  \A k \in HotSockets \cup AssignedSockets : readyState[k] # "CLOSED"

(***************************************************************************)
(* ElevenLabsSession                                                       *)
(***************************************************************************)
\* the variables of the outbound audio path
audioVars == <<audioQueue, isProcessingAudio, drains, nextFrame, sent, clearCount, dropped>>

\* the variables of the speech detector
vadVars == <<isUserSpeaking, consecutiveSpeechFrames, consecutiveSilentChunks, activityCount,
             speechRun, silenceRun>>

\* the variables of the provider connection
connVars == <<phase, elevenLabsWs, elState, isConnected, timeoutArmed>>

\* the variables of the provider's handshake acknowledgement
formatVars == <<outputFormat, metadataReceived>>

\* values of agent_output_audio_format the provider may announce
OutputFormats == {"ulaw_8000", "pcm_16000", "mp3_44100"}

\* initializeElevenLabsConnection, up to the registration of the handlers
InitializeElevenLabsConnection ==
  IF ~hasCreds
  THEN /\ isConnected' = FALSE
       /\ UNCHANGED <<elevenLabsWs, elState, timeoutArmed>>
  ELSE /\ elevenLabsWs' = "socket"
       /\ elState' = "CONNECTING"
       /\ timeoutArmed' = TRUE
       /\ UNCHANGED isConnected

\* handleMessage, case 'start'. Twilio sends one `start` per media stream.
Start(hasPhone) ==
  /\ phase = "created"
  /\ IF hasPhone
     THEN /\ phase' = "loading"
          /\ UNCHANGED <<elevenLabsWs, elState, isConnected, timeoutArmed>>
     ELSE /\ phase' = "started"
          /\ InitializeElevenLabsConnection
  /\ lastOp' = Op("start", NoCall, 0, "none")
  /\ UNCHANGED <<audioVars, vadVars, formatVars>>

\* loadLeadData() settles: the .then callback arms the 100 ms timer
LeadLoaded ==
  /\ phase = "loading"
  /\ phase' = "delay"
  /\ lastOp' = Op("lead", NoCall, 0, "none")
  /\ UNCHANGED <<elevenLabsWs, elState, isConnected, timeoutArmed, audioVars, vadVars, formatVars>>

\* the 100 ms timer fires
DelayFired ==
  /\ phase = "delay"
  /\ phase' = "started"
  /\ InitializeElevenLabsConnection
  /\ lastOp' = Op("connect", NoCall, 0, "none")
  /\ UNCHANGED <<audioVars, vadVars, formatVars>>

\* elevenLabsWs.on('open')
ElOpen ==
  /\ elState = "CONNECTING"
  /\ elState' = "OPEN"
  /\ timeoutArmed' = FALSE
  /\ isConnected' = TRUE
  /\ lastOp' = Op("el_open", NoCall, 0, "none")
  /\ UNCHANGED <<phase, elevenLabsWs, audioVars, vadVars, formatVars>>

\* elevenLabsWs.on('error')
ElError ==
  /\ elState \in {"CONNECTING", "OPEN"}
  /\ elState' = "CLOSING"
  /\ isConnected' = FALSE
  /\ lastOp' = Op("el_error", NoCall, 0, "none")
  /\ UNCHANGED <<phase, elevenLabsWs, timeoutArmed, audioVars, vadVars, formatVars>>

\* elevenLabsWs.on('close')
ElClose ==
  /\ elState \in {"OPEN", "CLOSING"}
  /\ elState' = "CLOSED"
  /\ isConnected' = FALSE
  /\ lastOp' = Op("el_close", NoCall, 0, "none")
  /\ UNCHANGED <<phase, elevenLabsWs, timeoutArmed, audioVars, vadVars, formatVars>>

\* the connectionTimeout callback, 10 s after the socket was constructed. Its
\* `throw` runs in a timer callback, outside the try block of
\* initializeElevenLabsConnection: the error reaches the event loop uncaught
\* (result "uncaught")
ConnectionTimeout ==
  /\ timeoutArmed
  /\ timeoutArmed' = FALSE
  /\ elState' = IF ~isConnected /\ elevenLabsWs # "null" THEN WsClose(elState) ELSE elState
  /\ lastOp' = Op("timeout", NoCall, 0, IF ~isConnected THEN "uncaught" ELSE "none")
  /\ UNCHANGED <<phase, elevenLabsWs, isConnected, audioVars, vadVars, formatVars>>

\* cleanup(), called for the telephony `stop` event and when its socket closes
Cleanup ==
  /\ elState' = IF elevenLabsWs # "null" THEN WsClose(elState) ELSE elState
  /\ elevenLabsWs' = "null"
  /\ isConnected' = FALSE
  /\ lastOp' = Op("cleanup", NoCall, 0, "none")
  /\ UNCHANGED <<phase, timeoutArmed, audioVars, vadVars, formatVars>>

\* a provider message reaches the `message` handler: the socket is open, or
\* closing after a close() of ours that the peer has not answered yet
Receiving == elState \in {"OPEN", "CLOSING"}

\* handleElevenLabsMessage, case 'conversation_initiation_metadata'; the
\* format field may be absent ("undefined")
ProviderMetadata(format) ==
  /\ Receiving
  /\ metadataReceived' = TRUE
  /\ outputFormat' = IF format # "undefined" THEN format ELSE outputFormat
  /\ lastOp' = Op("metadata", NoCall, 0, "none")
  /\ UNCHANGED <<connVars, audioVars, vadVars>>

\* (mutant of ClearedQueue: the frames stay queued)
ClearedQueueKeeps == audioQueue

\* `this.audioQueue = []`
ClearedQueue == <<>>

\* (mutant of ClearTwilioAudio: the clear message is not sent)
ClearTwilioAudioSkips(n) == n

\* clearTwilioAudio: one `clear` message goes to the telephony socket
ClearTwilioAudio(n) == n + 1

\* the interruption protocol shared by both triggers
Interrupt ==
  /\ clearCount < MaxClears
  /\ dropped' = dropped \cup {audioQueue[i] : i \in 1..Len(audioQueue)}
  /\ audioQueue' = ClearedQueue
  /\ isProcessingAudio' = FALSE
  /\ clearCount' = ClearTwilioAudio(clearCount)
  /\ UNCHANGED <<drains, nextFrame, sent>>

\* handleElevenLabsMessage, case 'interruption'
ProviderInterruption ==
  /\ Receiving
  /\ Interrupt
  /\ lastOp' = Op("interruption", NoCall, 0, "none")
  /\ UNCHANGED <<connVars, vadVars, formatVars>>

\* processAudioQueue from its entry to its first `await`, on the queue q
StartDrain(q) ==
  IF isProcessingAudio \/ Len(q) = 0
  THEN /\ audioQueue' = q
       /\ UNCHANGED <<isProcessingAudio, drains, sent>>
  ELSE /\ isProcessingAudio' = TRUE
       /\ audioQueue' = Tail(q)
       /\ sent' = Append(sent, Head(q))
       /\ drains' = drains + 1

\* handleElevenLabsMessage, case 'audio': queue the frame, processAudioQueue()
ProviderAudio ==
  /\ Receiving
  /\ nextFrame < MaxFrames
  /\ nextFrame' = nextFrame + 1
  /\ StartDrain(Append(audioQueue, nextFrame + 1))
  /\ lastOp' = Op("audio", NoCall, 0, "none")
  /\ UNCHANGED <<connVars, vadVars, formatVars, clearCount, dropped>>

\* (mutant of DrainWake: the loop takes the newest frame of the queue)
DrainWakeTakesLast ==
  /\ drains > 0
  /\ IF Len(audioQueue) > 0
     THEN /\ audioQueue' = SubSeq(audioQueue, 1, Len(audioQueue) - 1)
          /\ sent' = Append(sent, audioQueue[Len(audioQueue)])
          /\ UNCHANGED <<isProcessingAudio, drains>>
     ELSE /\ isProcessingAudio' = FALSE
          /\ drains' = drains - 1
          /\ UNCHANGED <<audioQueue, sent>>
  /\ lastOp' = Op("wake", NoCall, 0, "none")
  /\ UNCHANGED <<connVars, vadVars, formatVars, nextFrame, clearCount, dropped>>

\* processAudioQueue resumes after its 10 ms pacing delay: next loop test
DrainWake ==
  /\ drains > 0
  /\ IF Len(audioQueue) > 0
     THEN /\ audioQueue' = Tail(audioQueue)
          /\ sent' = Append(sent, Head(audioQueue))
          /\ UNCHANGED <<isProcessingAudio, drains>>
     ELSE /\ isProcessingAudio' = FALSE
          /\ drains' = drains - 1
          /\ UNCHANGED <<audioQueue, sent>>
  /\ lastOp' = Op("wake", NoCall, 0, "none")
  /\ UNCHANGED <<connVars, vadVars, formatVars, nextFrame, clearCount, dropped>>

\* (mutant of SilentChunksAfterSpeech: a speech frame leaves the silence count)
SilentChunksAfterSpeechKept == consecutiveSilentChunks

\* `this.consecutiveSilentChunks = 0` of the speech branch
SilentChunksAfterSpeech == 0

\* (mutant of SpeechFramesAfterSilence: a silent frame leaves the speech count)
SpeechFramesAfterSilenceKept == consecutiveSpeechFrames

\* `this.consecutiveSpeechFrames = 0` of the silence branch
SpeechFramesAfterSilence == 0

\* (mutant of UserActivity: the user_activity message is not sent)
UserActivitySkipped(n) == n

\* the speech onset's `this.elevenLabsWs.send({type: 'user_activity'})`
UserActivity(n) == n + 1

\* handleMessage, case 'media', for a frame detectSpeech classifies as speech
MediaSpeech ==
  /\ consecutiveSpeechFrames < MaxRun
  /\ speechRun' = speechRun + 1
  /\ silenceRun' = 0
  /\ consecutiveSilentChunks' = SilentChunksAfterSpeech
  /\ consecutiveSpeechFrames' = consecutiveSpeechFrames + 1
  /\ IF ~isUserSpeaking /\ consecutiveSpeechFrames + 1 >= minSpeechFrames
     THEN /\ isUserSpeaking' = TRUE
          /\ activityCount' = UserActivity(activityCount)
          /\ Interrupt
     ELSE UNCHANGED <<isUserSpeaking, activityCount, audioVars>>

\* handleMessage, case 'media', for a frame detectSpeech classifies as silence
MediaSilence ==
  /\ consecutiveSilentChunks < MaxRun
  /\ silenceRun' = silenceRun + 1
  /\ speechRun' = 0
  /\ consecutiveSilentChunks' = consecutiveSilentChunks + 1
  /\ consecutiveSpeechFrames' = SpeechFramesAfterSilence
  /\ isUserSpeaking' = IF isUserSpeaking /\ consecutiveSilentChunks + 1 >= silenceThreshold
                       THEN FALSE ELSE isUserSpeaking
  /\ UNCHANGED <<activityCount, audioVars>>

\* handleMessage, case 'media': the guard of the forwarding branch
Forwarding == elevenLabsWs # "null" /\ isConnected

\* (mutant of MediaResult: only frames classified as speech are forwarded)
MediaResultSpeechOnly(isSpeech) ==
  IF Forwarding /\ isSpeech THEN "chunk" ELSE "none"

\* what the media handler sends to the provider for one frame: "chunk" for
\* one user_audio_chunk (`Always send audio to ElevenLabs`), "none" for nothing
MediaResult(isSpeech) == IF Forwarding THEN "chunk" ELSE "none"

\* handleMessage, case 'media'
Media(isSpeech) ==
  /\ IF Forwarding
     THEN IF isSpeech THEN MediaSpeech ELSE MediaSilence
     ELSE UNCHANGED <<audioVars, vadVars>>
  /\ lastOp' = Op("media", NoCall, 0, MediaResult(isSpeech))
  /\ UNCHANGED <<connVars, formatVars>>

SessionNext ==
  \/ \E hasPhone \in BOOLEAN : Start(hasPhone)
  \/ LeadLoaded
  \/ DelayFired
  \/ ElOpen
  \/ ElError
  \/ ElClose
  \/ ConnectionTimeout
  \/ Cleanup
  \/ \E format \in OutputFormats \cup {"undefined"} : ProviderMetadata(format)
  \/ ProviderInterruption
  \/ ProviderAudio
  \/ DrainWake
  \/ \E isSpeech \in BOOLEAN : Media(isSpeech)

SessionSpec == Init /\ [][SessionNext /\ UNCHANGED <<poolVars, pingVars, leadVars, codecVars, dispatchVars, parseVars, drainVars, paceVars, originVars, teardownVars, repeatVars>>]_vars

(***************************************************************************)
(* One call from the webhook to teardown: the pool and the Session together *)
(***************************************************************************)
\* the CallSid of the call the Session serves (message.start.callSid)
SessionCallSid == "A"

\* TwilioHandler.handleIncomingCall: pre-connect while the phone is ringing
HandleIncomingCall == GetOrCreateConnection(SessionCallSid)

\* the life cycle of the call: the webhook and the pool's socket events, and
\* the Session's connection handlers with the teardown
CallNext ==
  \/ HandleIncomingCall /\ UNCHANGED sessVars
  \/ (\E k \in Sock : SocketOpen(k)) /\ UNCHANGED sessVars
  \/ MaintenanceTick /\ UNCHANGED sessVars
  \/ (\E hasPhone \in BOOLEAN : Start(hasPhone)) /\ UNCHANGED poolVars
  \/ LeadLoaded /\ UNCHANGED poolVars
  \/ DelayFired /\ UNCHANGED poolVars
  \/ ElOpen /\ UNCHANGED poolVars
  \/ ElError /\ UNCHANGED poolVars
  \/ ElClose /\ UNCHANGED poolVars
  \/ ConnectionTimeout /\ UNCHANGED poolVars
  \/ Cleanup /\ UNCHANGED poolVars

CallSpec == Init /\ [][CallNext /\ UNCHANGED <<pingVars, leadVars, codecVars, dispatchVars, parseVars, drainVars, paceVars, originVars, teardownVars, repeatVars>>]_vars

\* C14: right after a teardown the Session is closed (no provider socket
\* reference, not connected, its provider socket closing or closed) and the
\* pool holds no entry for the Session's call id.
TeardownReleasesEverything ==
  lastOp.op = "cleanup" =>
    /\ elevenLabsWs = "null"
    /\ ~isConnected
    /\ elState \notin {"CONNECTING", "OPEN"}
    /\ connections[SessionCallSid] = NoConn

(***************************************************************************)
(* Properties of the Session's outbound audio path                         *)
(***************************************************************************)
\* C1: at most one drain loop (processAudioQueue) is executing per Session
\* at any time, whatever the interleaving of provider audio events,
\* interruption triggers and pacing wake-ups.
AtMostOneDrain == drains <= 1

\* the step handles an interruption trigger: the provider's `interruption`
\* event, or the speech detector going from silent to speaking
InterruptionTrigger ==
  \/ lastOp'.op = "interruption"
  \/ ~isUserSpeaking /\ isUserSpeaking'

\* C2: immediately after the Session handles an interruption trigger its
\* dispatch queue has length 0 and exactly one `clear` message has been sent
\* to the telephony socket for that trigger (and none without a trigger).
InterruptionClearsQueueOnce ==
  [][/\ InterruptionTrigger =>
          /\ Len(audioQueue') = 0
          /\ clearCount' = clearCount + 1
     /\ ~InterruptionTrigger => clearCount' = clearCount]_vars

\* both kinds of trigger have been handled, the second with frames queued
BothTriggersHandled ==
  /\ isUserSpeaking
  /\ activityCount = 1
  /\ clearCount = 2
  /\ dropped # {}
  /\ audioQueue = <<>>

\* C3: no audio frame that was in the dispatch queue when an interruption
\* trigger was handled is ever sent to the telephony socket afterwards.
NoDroppedFrameSent == \A i \in 1..Len(sent) : sent[i] \notin dropped

\* a frame was dropped by an interruption and a later frame has been sent
SentAfterDrop ==
  /\ dropped # {}
  /\ \E i \in 1..Len(sent) : \A d \in dropped : sent[i] > d

\* C15: the provider socket the Session holds is the one the pool assigned to
\* its call id; the Session constructs no provider socket of its own.
SessionUsesPooledSocket ==
  elevenLabsWs # "null" =>
    /\ elState = "NONE"
    /\ connections[SessionCallSid] # NoConn

\* C16: when the provider socket of a connected Session errors or closes, the
\* Session is closed by that very step: it drops its provider socket
\* reference, is no longer connected, and the pool holds no entry for its
\* call id.
ProviderLossClosesSession ==
  [][(lastOp'.op \in {"el_error", "el_close"} /\ isConnected) =>
       /\ elevenLabsWs' = "null"
       /\ ~isConnected'
       /\ connections'[SessionCallSid] = NoConn]_vars

(***************************************************************************)
(* Properties of the Session's inbound audio path                          *)
(***************************************************************************)
\* C17: no user_audio_chunk is sent to the provider before the provider's
\* conversation_initiation_metadata event has been received.
NoChunkBeforeMetadata == lastOp.result = "chunk" => metadataReceived

\* C18: starting silent, isUserSpeaking becomes true only on the frame that
\* completes a run of minSpeechFrames speech-like frames in a row, never
\* earlier; the speech count is the length of that run, so a frame that is
\* not speech-like puts it back to zero.
OnsetOnlyAfterFullRun ==
  [][/\ consecutiveSpeechFrames' = speechRun'
     /\ (~isUserSpeaking /\ isUserSpeaking') =>
          /\ lastOp'.op = "media"
          /\ speechRun' = minSpeechFrames]_vars

\* C18 witness: the flag has just come on, with the last frame of a full run
\* of speech-like frames
OnsetAtFullRun ==
  /\ isUserSpeaking
  /\ speechRun = minSpeechFrames
  /\ activityCount = 1
  /\ lastOp.op = "media"
  /\ clearCount = 1

\* C19: while isUserSpeaking is true it reverts to false only on the frame
\* that completes a run of silenceThreshold frames in a row that are not
\* speech-like; the silence count is the length of that run, so a speech-like
\* frame puts it back to zero, and leaves the flag true.
OffsetOnlyAfterFullSilence ==
  [][/\ consecutiveSilentChunks' = silenceRun'
     /\ (isUserSpeaking /\ ~isUserSpeaking') =>
          /\ lastOp'.op = "media"
          /\ silenceRun' = silenceThreshold
     /\ (isUserSpeaking /\ speechRun' > speechRun) =>
          /\ isUserSpeaking'
          /\ consecutiveSilentChunks' = 0]_vars

\* C19 witness: the flag has just gone off with the last frame of a full
\* silence run
OffsetAfterFullSilence ==
  /\ ~isUserSpeaking
  /\ activityCount = 1
  /\ silenceRun = silenceThreshold
  /\ lastOp.op = "media"

\* C20: a telephony media frame handled while the Session is connected sends
\* exactly one user_audio_chunk to the provider, whether it is speech or
\* silence and whether or not it starts an interruption; a frame handled
\* while it is not connected sends nothing and leaves the speech detector and
\* the dispatch queue as they were.
EveryFrameForwardedOnce ==
  [][lastOp'.op = "media" =>
       IF Forwarding
       THEN lastOp'.result = "chunk"
       ELSE /\ lastOp'.result = "none"
            /\ UNCHANGED <<vadVars, audioVars>>]_vars

\* C20 witness: the frame that started an interruption, with frames queued,
\* was forwarded as well
OnsetFrameForwarded ==
  /\ lastOp.op = "media"
  /\ lastOp.result = "chunk"
  /\ isUserSpeaking
  /\ speechRun = minSpeechFrames
  /\ clearCount = 1
  /\ dropped # {}

(***************************************************************************)
(* Keep-alive: the provider's `ping` events and the Session's `pong`s      *)
(***************************************************************************)
\* a `ping` event without ping_event.ping_ms (undefined)
NoPingMs == -1

\* values of ping_event.ping_ms
PingMs == {NoPingMs} \cup 0..MaxPingMs

\* what ws.send does in each readyState: "throws" while connecting, the frame
\* goes out when open, and is discarded once the socket is closing or closed
WsSend(st) ==
  IF st = "CONNECTING" THEN "throws" ELSE IF st = "OPEN" THEN "sent" ELSE "dropped"

\* (mutant of PongDelay: the pong is scheduled without delay)
PongDelayNone(ms) == 0

\* `message.ping_event?.ping_ms || 0`, the delay handed to setTimeout
PongDelay(ms) == IF ms = NoPingMs THEN 0 ELSE ms

\* handleElevenLabsMessage, case 'ping' (the first of the two `case 'ping'`
\* labels; the switch never reaches the second): arm one timer per event.
\* The provider numbers its pings, so each event carries a fresh event_id.
ProviderPing(ms) ==
  /\ Receiving
  /\ nextPing < MaxPings
  /\ nextPing' = nextPing + 1
  /\ pongTimers' = pongTimers \cup
       {[event_id |-> nextPing + 1, ping_ms |-> ms, receivedAt |-> clock,
         due |-> clock + PongDelay(ms)]}
  /\ lastOp' = Op("ping", NoCall, 0, "none")
  /\ UNCHANGED <<clock, pongs, sessVars>>

\* the setTimeout callback of the ping case: it fires once, not before its
\* delay, and sends the pong on whatever this.elevenLabsWs is by then
PongTimer(t) ==
  /\ t \in pongTimers
  /\ clock >= t.due
  /\ pongTimers' = pongTimers \ {t}
  /\ LET r == IF elevenLabsWs = "null" THEN "none" ELSE WsSend(elState) IN
     /\ pongs' = IF r = "sent" THEN Append(pongs, t.event_id) ELSE pongs
     /\ lastOp' = Op("pong", NoCall, 0, r)
  /\ UNCHANGED <<clock, nextPing, sessVars>>

\* time passes on the event loop
Tick ==
  /\ clock < MaxClock
  /\ clock' = clock + 1
  /\ lastOp' = Op("tick", NoCall, 0, "none")
  /\ UNCHANGED <<nextPing, pongTimers, pongs, sessVars>>

\* the Session's connection life cycle with the keep-alive
PingNext ==
  \/ (\E hasPhone \in BOOLEAN : Start(hasPhone)) /\ UNCHANGED pingVars
  \/ LeadLoaded /\ UNCHANGED pingVars
  \/ DelayFired /\ UNCHANGED pingVars
  \/ ElOpen /\ UNCHANGED pingVars
  \/ ElError /\ UNCHANGED pingVars
  \/ ElClose /\ UNCHANGED pingVars
  \/ ConnectionTimeout /\ UNCHANGED pingVars
  \/ Cleanup /\ UNCHANGED pingVars
  \/ \E ms \in PingMs : ProviderPing(ms)
  \/ \E t \in pongTimers : PongTimer(t)
  \/ Tick

PingSpec == Init /\ [][PingNext /\ UNCHANGED <<poolVars, leadVars, codecVars, dispatchVars, parseVars, drainVars, paceVars, originVars, teardownVars, repeatVars>>]_vars

\* the number of pongs sent so far that carry event_id id
PongCount(id) == Cardinality({i \in 1..Len(pongs) : pongs[i] = id})

\* C21 as stated: every ping whose timer has run has been answered by exactly
\* one pong carrying its event_id.
EveryPingAnsweredOnce ==
  \A id \in 1..nextPing :
    (\A t \in pongTimers : t.event_id # id) => PongCount(id) = 1

\* C21 amended: a pong is sent only by the timer of a ping, carries that ping's
\* event_id, and is not sent before ping_ms (0 when absent) has elapsed since
\* the ping; the timer sends exactly one pong when the Session still holds its
\* provider socket and that socket is open, and none otherwise; no event_id is
\* ever answered twice.
PongAnswersPing ==
  [][/\ \A t \in pongTimers \ pongTimers' :
          /\ clock >= t.receivedAt + (IF t.ping_ms = NoPingMs THEN 0 ELSE t.ping_ms)
          /\ pongs' = IF elevenLabsWs # "null" /\ elState = "OPEN"
                      THEN Append(pongs, t.event_id) ELSE pongs
     /\ pongTimers \subseteq pongTimers' => pongs' = pongs
     /\ \A id \in 1..MaxPings :
          Cardinality({i \in 1..Len(pongs') : pongs'[i] = id}) <= 1]_vars

\* C21 witness: one ping has just been answered while another one, received
\* with a delay, is still waiting for its delay to elapse
PongSentOtherWaiting ==
  /\ lastOp.op = "pong"
  /\ lastOp.result = "sent"
  /\ Len(pongs) = 1
  /\ \E t \in pongTimers : t.ping_ms > 0 /\ t.due > clock

(***************************************************************************)
(* The initiation payload: conversation_initiation_client_data             *)
(***************************************************************************)
\* the columns of a Lead that may be null and that the payload reads
OptionalFields ==
  {"name", "move_in_date", "budget", "yearly_wage", "occupation", "contract_length",
   "email", "property_type", "area", "preferred_time", "address_line_1", "postcode",
   "bedroom_count", "availability_at", "property_cost"}

\* the columns of a Lead that are never null
RequiredFields == {"id", "phone_number", "completeness_level"}

\* `this.lead === null`
NoLead == [f \in {} |-> "null"]

\* the Lead rows loadLeadData may find: each optional column holds a value
\* ("value") or is null ("null")
Leads ==
  {[f \in OptionalFields \cup RequiredFields |->
      IF f \in RequiredFields THEN "value" ELSE l[f]] :
   l \in [OptionalFields -> {"null", "value"}]}

\* A value of the payload is written by its JavaScript type: "string" for a
\* string that is not empty, "empty" for '', "boolean" for true or false.
\* sanitizeVariable: null and undefined become '', anything else String(value)
SanitizeVariable(v) == IF v = "null" THEN "empty" ELSE "string"

\* `this.lead.x ? `...${this.lead.x}...` : ''`
Formatted(v) == IF v = "null" THEN "empty" ELSE "string"

\* the object literal assigned to initData.dynamic_variables
DynamicVariables(l) ==
  [custom_greeting         |-> "string",
   custom_intro            |-> "string",
   lead_id                 |-> SanitizeVariable(l["id"]),
   lead_name               |-> SanitizeVariable(l["name"]),
   lead_phone              |-> SanitizeVariable(l["phone_number"]),
   lead_move_in_date       |-> SanitizeVariable(Formatted(l["move_in_date"])),
   lead_budget             |-> Formatted(l["budget"]),
   lead_yearly_wage        |-> Formatted(l["yearly_wage"]),
   lead_occupation         |-> SanitizeVariable(l["occupation"]),
   lead_contract_length    |-> Formatted(l["contract_length"]),
   lead_completeness       |-> SanitizeVariable(l["completeness_level"]),
   lead_email              |-> SanitizeVariable(l["email"]),
   lead_property_type      |-> SanitizeVariable(l["property_type"]),
   lead_area               |-> SanitizeVariable(l["area"]),
   lead_preferred_time     |-> SanitizeVariable(l["preferred_time"]),
   missing_fields          |-> "string",
   has_missing_fields      |-> "string",
   property_address        |-> SanitizeVariable(l["address_line_1"]),
   property_postcode       |-> SanitizeVariable(l["postcode"]),
   property_bedrooms       |-> Formatted(l["bedroom_count"]),
   property_available_from |-> Formatted(l["availability_at"]),
   property_monthly_cost   |-> Formatted(l["property_cost"]),
   lead_context            |-> "string",
   if_lead_name            |-> "boolean",
   if                      |-> "boolean",
   else                    |-> "boolean",
   has_lead_name           |-> "string",
   true                    |-> "string",
   false                   |-> "string"]

\* the keys the payload carries when a lead is present
DynamicKeys == DOMAIN DynamicVariables(CHOOSE l \in Leads : TRUE)

\* initData.dynamic_variables as the open handler leaves it: set only inside
\* `if (this.lead)`, so without a lead the payload has no such mapping
InitData(l) == IF l # NoLead THEN DynamicVariables(l) ELSE [k \in {} |-> "empty"]

\* loadLeadData settles with the row it found, or with none (no row, or the
\* lookup failed), and the .then callback arms the 100 ms timer
LoadLeadData(l) ==
  /\ LeadLoaded
  /\ lead' = l
  /\ UNCHANGED initiations

\* elevenLabsWs.on('open'): the handler builds initData and sends it
OpenAndInitiate ==
  /\ ElOpen
  /\ initiations' = Append(initiations, InitData(lead))
  /\ UNCHANGED lead

\* a call from `start` to the initiation message
LeadNext ==
  \/ (\E hasPhone \in BOOLEAN : Start(hasPhone)) /\ UNCHANGED leadVars
  \/ phase = "loading" /\ \E l \in Leads \cup {NoLead} : LoadLeadData(l)
  \/ DelayFired /\ UNCHANGED leadVars
  \/ OpenAndInitiate

LeadSpec == Init /\ [][LeadNext /\ UNCHANGED <<poolVars, pingVars, codecVars, dispatchVars, parseVars, drainVars, paceVars, originVars, teardownVars, repeatVars>>]_vars

\* C22: the initiation payload of a Session without a lead carries every key
\* that is sent when a lead is present, each with a string (the empty string
\* where data is absent) and none undefined.
NoLeadPayloadComplete ==
  \A i \in 1..Len(initiations) :
    lead = NoLead =>
      /\ DynamicKeys \subseteq DOMAIN initiations[i]
      /\ \A k \in DOMAIN initiations[i] : initiations[i][k] \in {"string", "empty"}

\* C23: every value of the dynamic_variables mapping of every initiation
\* message sent is a string, whatever columns of the lead are null.
AllVariablesAreStrings ==
  \A i \in 1..Len(initiations) :
    \A k \in DOMAIN initiations[i] : initiations[i][k] \in {"string", "empty"}

(***************************************************************************)
(* Codec: 16-bit linear PCM <-> 8-bit mu-law                               *)
(***************************************************************************)
\* linearToMulaw: BIAS = 0x84 and CLIP
BIAS == 132

CLIP == 32635

\* mulawToLinear: MULAW_BIAS
MULAW_BIAS == 33

\* mulawToLinear: exp_lut, indexed from 0 in the source
exp_lut == <<0, 132, 396, 924, 1980, 4092, 8316, 16764>>

\* n >> k on a 32-bit integer (arithmetic shift: the floor of n / 2^k)
Shr(n, k) == n \div (2 ^ k)

\* n & mask for a mask of `width` one-bits starting at bit `low`, as the value
\* of those bits (two's complement, so it works for negative n as well)
Bits(n, low, width) == Shr(n, low) % (2 ^ width)

\* the loop of linearToMulaw that finds the segment: from expMask 0x4000 and
\* exponent 7 downwards while the masked bit is clear and exponent > 0
RECURSIVE ExponentLoop(_, _, _)
ExponentLoop(s, exponent, expMask) ==
  IF (s \div expMask) % 2 = 0 /\ exponent > 0
  THEN ExponentLoop(s, exponent - 1, expMask \div 2)
  ELSE exponent

\* (mutant of LinearToMulaw: the code word is not inverted)
LinearToMulawNotInverted(s) ==
  LET sign      == 128 * Bits(Shr(s, 8), 7, 1)
      magnitude == IF sign # 0 THEN -s ELSE s
      clipped   == IF magnitude > CLIP THEN CLIP ELSE magnitude
      biased    == clipped + BIAS
      exponent  == ExponentLoop(biased, 7, 16384)
      mantissa  == Bits(biased, exponent + 3, 4)
  IN  (sign + exponent * 16 + mantissa) % 256

\* linearToMulaw(sample). sign, exponent << 4 and mantissa occupy disjoint
\* bits, so their bitwise or is their sum; ~v & 0xFF is (-v - 1) mod 256.
LinearToMulaw(s) ==
  LET sign      == 128 * Bits(Shr(s, 8), 7, 1)
      magnitude == IF sign # 0 THEN -s ELSE s
      clipped   == IF magnitude > CLIP THEN CLIP ELSE magnitude
      biased    == clipped + BIAS
      exponent  == ExponentLoop(biased, 7, 16384)
      mantissa  == Bits(biased, exponent + 3, 4)
  IN  (-(sign + exponent * 16 + mantissa) - 1) % 256

\* mulawToLinear(mulaw)
MulawToLinear(u) ==
  LET inverted == -u - 1
      sign     == 128 * Bits(inverted, 7, 1)
      exponent == Bits(inverted, 4, 3)
      mantissa == Bits(inverted, 0, 4)
      value    == exp_lut[exponent + 1] + mantissa * (2 ^ (exponent + 3)) - MULAW_BIAS
  IN  IF sign # 0 THEN -value ELSE value

\* the samples within the clip range of the encoder
ClipRange == (-CLIP)..CLIP

\* a sample of the clip range is handed to the codec
CodecInit ==
  /\ PoolInit
  /\ SessionInit
  /\ PingInit
  /\ LeadInit
  /\ DispatchInit
  /\ malformed = 0
  /\ stale = 0
  /\ staleSent = {}
  /\ hasCreds
  /\ sample \in ClipRange
  /\ mulaw = 0
  /\ linear = 0
  /\ codecStep = "input"
  /\ timers = <<>>
  /\ gap = PaceTicks
  /\ hotMade = 1..HotCreated(HOT_POOL_SIZE)
  /\ coldMade = {}
  /\ tornDown = FALSE
  /\ wasOpen = FALSE
  /\ provider = <<>>
  /\ current = 0
  /\ loading = 0
  /\ delaying = 0
  /\ starts = 0
  /\ lastOp = Op("event", NoCall, 0, "none")

\* linearToMulaw is applied to the sample
Encode ==
  /\ codecStep = "input"
  /\ mulaw' = LinearToMulaw(sample)
  /\ codecStep' = "encoded"
  /\ lastOp' = Op("encode", NoCall, 0, "none")
  /\ UNCHANGED <<sample, linear>>

\* mulawToLinear is applied to the code word
Decode ==
  /\ codecStep = "encoded"
  /\ linear' = MulawToLinear(mulaw)
  /\ codecStep' = "decoded"
  /\ lastOp' = Op("decode", NoCall, 0, "none")
  /\ UNCHANGED <<sample, mulaw>>

CodecNext == Encode \/ Decode

CodecSpec ==
  CodecInit /\ [][CodecNext /\ UNCHANGED <<poolVars, sessVars, pingVars, leadVars, dispatchVars, parseVars, drainVars, paceVars, originVars, teardownVars, repeatVars>>]_vars

\* the segment (exponent field) of a mu-law code word and its quantization step
Segment(u) == ((255 - u) \div 16) % 8

QuantStep(u) == 2 ^ (Segment(u) + 3)

\* |a - b|
Distance(a, b) == IF a >= b THEN a - b ELSE b - a

\* C28: for every sample x of the clip range, decoding the encoding of x gives
\* a value within one quantization step of the segment x falls in.
RoundTripWithinStep ==
  codecStep = "decoded" => Distance(linear, sample) <= QuantStep(mulaw)

(***************************************************************************)
(* Outbound format dispatch: what processAudioQueue sends for each frame   *)
(***************************************************************************)
\* a PCM buffer of n zero samples (two zero bytes each)
ZeroBuffer(n) == [i \in 1..(2 * n) |-> 0]

\* Payloads of provider `audio` events, as the bytes that Buffer.from(...,
\* 'base64') yields: the all-zero buffers, and buffers that read, as
\* little-endian 16-bit samples, 10000, -10000, -32768, and 32767 followed by
\* an odd trailing byte
Payloads ==
  {ZeroBuffer(n) : n \in 1..MaxSamples} \cup
  {<<16, 39>>, <<240, 216>>, <<0, 128>>, <<255, 127, 0>>}

\* String.prototype.includes on the values outputFormat takes in the model
Includes(format, word) ==
  <<format, word>> \in {<<"ulaw_8000", "ulaw">>, <<"pcm_8000", "pcm">>, <<"pcm_16000", "pcm">>}

\* pcm16bit[i] of `new Int16Array(pcmBuffer.buffer, pcmBuffer.byteOffset,
\* pcmBuffer.length / 2)`, counting i from 1
Int16At(buffer, i) ==
  LET word == buffer[2 * i - 1] + 256 * buffer[2 * i]
  IN  IF word >= 32768 THEN word - 65536 ELSE word

\* Math.floor(pcm16bit[i] * 0.9): for a 16-bit integer the floor of 9/10 of it
GainReduced(s) == (9 * s) \div 10

\* convertPCMToMulaw(pcmBuffer)
ConvertPCMToMulaw(buffer) ==
  [i \in 1..(Len(buffer) \div 2) |-> LinearToMulaw(GainReduced(Int16At(buffer, i)))]

\* (mutant of Dispatched: every payload is converted, whatever the format)
DispatchedAlwaysConverted(format, payload) == ConvertPCMToMulaw(payload)

\* the body of the drain loop: the bytes handed to sendAudioToTwilio for a
\* payload taken from the queue while this.outputFormat is `format`
Dispatched(format, payload) ==
  IF Includes(format, "ulaw") THEN payload
  ELSE IF Includes(format, "pcm") THEN ConvertPCMToMulaw(payload)
  ELSE ConvertPCMToMulaw(payload)

\* sendAudioToTwilio for the frame the step took from the queue, if it took one
Delivering ==
  delivered' =
    IF Len(sent') > Len(sent)
    THEN LET frame == sent'[Len(sent')] IN
         Append(delivered, [frame   |-> frame,
                            format  |-> outputFormat,
                            payload |-> Dispatched(outputFormat, payloadOf'[frame])])
    ELSE delivered

\* handleElevenLabsMessage, case 'audio', for an event that carries payload
ProviderAudioWith(payload) ==
  /\ ProviderAudio
  /\ payloadOf' = Append(payloadOf, payload)
  /\ Delivering

\* processAudioQueue resumes after its pacing delay
DrainWakeDelivering ==
  /\ DrainWake
  /\ UNCHANGED payloadOf
  /\ Delivering

\* a call from `start` through the handshake to the outbound audio
DispatchNext ==
  \/ (\E hasPhone \in BOOLEAN : Start(hasPhone)) /\ UNCHANGED dispatchVars
  \/ LeadLoaded /\ UNCHANGED dispatchVars
  \/ DelayFired /\ UNCHANGED dispatchVars
  \/ ElOpen /\ UNCHANGED dispatchVars
  \/ (\E format \in OutputFormats \cup {"undefined"} : ProviderMetadata(format))
       /\ UNCHANGED dispatchVars
  \/ \E payload \in Payloads : ProviderAudioWith(payload)
  \/ DrainWakeDelivering

DispatchSpec ==
  Init /\ [][DispatchNext /\ UNCHANGED <<poolVars, pingVars, leadVars, codecVars, parseVars, drainVars, paceVars, originVars, teardownVars, repeatVars>>]_vars

\* C24: every media message carries the payload of the frame sent, dispatched
\* on the output format in force when the frame left the queue: unchanged,
\* byte for byte, when the format contains `ulaw`; otherwise (PCM, or a format
\* that is neither) each 16-bit sample reduced to 9/10 and encoded to mu-law.
DispatchFollowsFormat ==
  /\ Len(delivered) = Len(sent)
  /\ \A i \in 1..Len(delivered) :
       LET d      == delivered[i]
           source == payloadOf[d.frame]
       IN  /\ d.frame = sent[i]
           /\ IF d.format = "ulaw_8000"
              THEN d.payload = source
              ELSE /\ Len(d.payload) = Len(source) \div 2
                   /\ \A j \in 1..Len(d.payload) :
                        d.payload[j] = LinearToMulaw((9 * Int16At(source, j)) \div 10)

\* C24 witness: the same session has passed one frame through untouched and
\* converted another, the latter under a format that is neither ulaw nor PCM
PassedThroughAndConverted ==
  /\ \E i \in 1..Len(delivered) :
       /\ delivered[i].format = "ulaw_8000"
       /\ delivered[i].payload = payloadOf[delivered[i].frame]
  /\ \E i \in 1..Len(delivered) :
       /\ delivered[i].format = "mp3_44100"
       /\ delivered[i].payload # payloadOf[delivered[i].frame]

\* C27: a payload of all-zero 16-bit samples that goes through the PCM
\* conversion is sent as one 0xFF byte per sample.
ZeroEncodesToFF ==
  \A i \in 1..Len(delivered) :
    LET d      == delivered[i]
        source == payloadOf[d.frame]
    IN  (d.format # "ulaw_8000" /\ \A j \in 1..Len(source) : source[j] = 0) =>
          /\ Len(d.payload) = Len(source) \div 2
          /\ \A j \in 1..Len(d.payload) : d.payload[j] = 255

\* C27 witness: a buffer of two zero samples was converted and sent
ZeroBufferSent ==
  \E i \in 1..Len(delivered) :
    /\ delivered[i].format \in {"pcm_8000", "pcm_16000"}
    /\ payloadOf[delivered[i].frame] = ZeroBuffer(2)
    /\ delivered[i].payload = <<255, 255>>

(***************************************************************************)
(* Inbound data that is not JSON                                           *)
(***************************************************************************)
\* (mutant of ProviderCatch: a parse error is handled like an interruption)
ProviderCatchInterrupts ==
  /\ Interrupt
  /\ UNCHANGED <<connVars, vadVars, formatVars>>

\* the catch block of the provider `message` handler: it logs
ProviderCatch == UNCHANGED sessVars

\* the catch block of handleMessage: it logs
TelephonyCatch == UNCHANGED sessVars

\* elevenLabsWs.on('message') for data on which JSON.parse throws: the call of
\* handleElevenLabsMessage is skipped and the catch block runs
MalformedProviderData ==
  /\ Receiving
  /\ malformed < MaxMalformed
  /\ malformed' = malformed + 1
  /\ ProviderCatch
  /\ lastOp' = Op("malformed_provider", NoCall, 0, "none")

\* handleMessage for data on which JSON.parse throws: the switch is skipped
\* and the catch block runs
MalformedTelephonyData ==
  /\ malformed < MaxMalformed
  /\ malformed' = malformed + 1
  /\ TelephonyCatch
  /\ lastOp' = Op("malformed_telephony", NoCall, 0, "none")

\* a call with well-formed and malformed messages on both sockets
ParseNext ==
  \/ (\E hasPhone \in BOOLEAN : Start(hasPhone)) /\ UNCHANGED malformed
  \/ LeadLoaded /\ UNCHANGED malformed
  \/ DelayFired /\ UNCHANGED malformed
  \/ ElOpen /\ UNCHANGED malformed
  \/ (\E format \in OutputFormats \cup {"undefined"} : ProviderMetadata(format))
       /\ UNCHANGED malformed
  \/ ProviderAudio /\ UNCHANGED malformed
  \/ DrainWake /\ UNCHANGED malformed
  \/ (\E isSpeech \in BOOLEAN : Media(isSpeech)) /\ UNCHANGED malformed
  \/ MalformedProviderData
  \/ MalformedTelephonyData

ParseSpec ==
  Init /\ [][ParseNext /\ UNCHANGED <<poolVars, pingVars, leadVars, codecVars, dispatchVars, drainVars, paceVars, originVars, teardownVars, repeatVars>>]_vars

\* the step handles malformed inbound data
MalformedStep == lastOp'.op \in {"malformed_provider", "malformed_telephony"}

\* C25: handling malformed JSON from either socket leaves the connection
\* state, the speech detector, the dispatch queue and the output format as
\* they were and sends nothing; every handler that could run before it can
\* still run after it, since the state they test is the same.
MalformedDataDropped ==
  [][MalformedStep =>
       /\ UNCHANGED <<connVars, vadVars, formatVars>>
       /\ UNCHANGED <<audioQueue, isProcessingAudio, drains, dropped>>
       /\ UNCHANGED <<sent, clearCount, activityCount>>
       /\ lastOp'.result = "none"]_vars

\* C25 witness: in the middle of a call (frames queued, a drain suspended,
\* a speech run under way) two malformed messages have been dropped, and a
\* telephony frame handled after them was forwarded
ForwardedAfterMalformed ==
  /\ malformed = 2
  /\ lastOp.op = "media"
  /\ lastOp.result = "chunk"
  /\ audioQueue # <<>>
  /\ drains > 0
  /\ consecutiveSpeechFrames > 1
  /\ outputFormat = "ulaw_8000"

(***************************************************************************)
(* The 10 s connection timeout                                             *)
(***************************************************************************)
\* C26: when the timeout finds the provider socket not opened, the socket is
\* closing or closed and the Session is not connected and holds no provider
\* socket any more, and the failure stays inside the Session: no error
\* escapes from the timer callback.
TimeoutEndsOnlySession ==
  lastOp.op = "timeout" =>
    /\ elState \in {"CLOSING", "CLOSED"}
    /\ ~isConnected
    /\ elevenLabsWs = "null"
    /\ lastOp.result # "uncaught"

(***************************************************************************)
(* Drain loops across an interruption                                      *)
(***************************************************************************)
\* an interruption leaves every processAudioQueue call that is suspended in
\* its pacing delay where it is: from then on it is a loop that was in flight
Staling == stale' = IF clearCount' > clearCount THEN drains ELSE stale

\* a loop that was in flight at an interruption resumes after its delay
StaleDrainWake ==
  /\ stale > 0
  /\ DrainWake
  /\ stale' = IF drains' < drains THEN stale - 1 ELSE stale
  /\ staleSent' = IF Len(sent') > Len(sent)
                  THEN staleSent \cup {sent'[Len(sent')]} ELSE staleSent

\* a loop started after the last interruption resumes after its delay
FreshDrainWake ==
  /\ drains > stale
  /\ DrainWake
  /\ UNCHANGED <<stale, staleSent>>

\* provider audio, both interruption triggers and the pacing wake-ups
DrainNext ==
  \/ (\E hasPhone \in BOOLEAN : Start(hasPhone)) /\ UNCHANGED drainVars
  \/ LeadLoaded /\ UNCHANGED drainVars
  \/ DelayFired /\ UNCHANGED drainVars
  \/ ElOpen /\ UNCHANGED drainVars
  \/ ProviderAudio /\ UNCHANGED drainVars
  \/ ProviderInterruption /\ Staling /\ UNCHANGED staleSent
  \/ (\E isSpeech \in BOOLEAN : Media(isSpeech)) /\ Staling /\ UNCHANGED staleSent
  \/ StaleDrainWake
  \/ FreshDrainWake

DrainSpec ==
  Init /\ [][DrainNext /\ UNCHANGED <<poolVars, pingVars, leadVars, codecVars, dispatchVars, parseVars, paceVars, originVars, teardownVars, repeatVars>>]_vars

\* C29: a drain loop that was in flight when an interruption trigger was
\* handled sends no frame afterwards; frames that arrive after the
\* interruption are sent only by a loop started after it.
InFlightDrainSendsNothing == staleSent = {}

(***************************************************************************)
(* user_activity                                                           *)
(***************************************************************************)
\* the step is a speech onset: the detector goes from silent to speaking
SpeechOnset == ~isUserSpeaking /\ isUserSpeaking'

\* C30: a speech onset sends exactly one user_activity to the provider, and
\* with it empties the queue and sends one clear; no other step sends a
\* user_activity: not the provider's `interruption` event (which still clears
\* once), and no frame handled while the detector is already speaking.
UserActivityOnlyAtOnset ==
  [][/\ SpeechOnset =>
          /\ lastOp'.op = "media"
          /\ activityCount' = activityCount + 1
          /\ Len(audioQueue') = 0
          /\ clearCount' = clearCount + 1
     /\ ~SpeechOnset => activityCount' = activityCount
     /\ lastOp'.op = "interruption" =>
          /\ activityCount' = activityCount
          /\ clearCount' = clearCount + 1
     /\ isUserSpeaking => activityCount' = activityCount]_vars

\* C30 witness: after the onset a provider interruption was handled and more
\* speech frames came in while speaking, and still one user_activity was sent
OneActivityForTwoInterruptions ==
  /\ isUserSpeaking
  /\ activityCount = 1
  /\ clearCount = 2
  /\ speechRun > minSpeechFrames
  /\ lastOp.op = "media"
  /\ lastOp.result = "chunk"

(***************************************************************************)
(* Order and pacing of the outbound frames                                 *)
(***************************************************************************)
\* C31: as long as no interruption has been handled, the frames sent followed
\* by the frames still queued are the frames received, in the order of their
\* `audio` events, each once; and while frames are queued exactly one drain
\* loop is there to send them.
FifoWithoutInterruption ==
  clearCount = 0 =>
    /\ sent \o audioQueue = [i \in 1..nextFrame |-> i]
    /\ audioQueue # <<>> => drains = 1

\* C31 witness: three frames were received while the first was being paced,
\* and all three have been sent, the last by a pacing wake-up
ThreeFramesInOrder ==
  /\ clearCount = 0
  /\ sent = <<1, 2, 3>>
  /\ lastOp.op = "wake"

\* `await new Promise(resolve => setTimeout(resolve, 10))`: the call that has
\* just sent a frame is suspended for a full pacing delay
Suspended == Append(timers, PaceTicks)

\* a provider `audio` event; when it starts a drain loop, that loop sends its
\* first frame at once and is suspended
PacedAudio ==
  /\ ProviderAudio
  /\ IF drains' > drains
     THEN timers' = Suspended /\ gap' = 0
     ELSE UNCHANGED paceVars

\* the timer of a suspended call has run out and the call resumes: it sends
\* the next frame and is suspended again, or finds the queue empty and ends
PacedWake ==
  \E i \in 1..Len(timers) :
    /\ timers[i] = 0
    /\ DrainWake
    /\ IF Len(sent') > Len(sent)
       THEN /\ timers' = [timers EXCEPT ![i] = PaceTicks]
            /\ gap' = 0
       ELSE /\ timers' = [j \in 1..(Len(timers) - 1) |->
                             IF j < i THEN timers[j] ELSE timers[j + 1]]
            /\ gap' = gap

\* one tick of time passes
PaceTick ==
  /\ gap < PaceTicks \/ \E i \in 1..Len(timers) : timers[i] > 0
  /\ timers' = [i \in 1..Len(timers) |-> IF timers[i] > 0 THEN timers[i] - 1 ELSE 0]
  /\ gap' = IF gap < PaceTicks THEN gap + 1 ELSE gap
  /\ lastOp' = Op("tick", NoCall, 0, "none")
  /\ UNCHANGED sessVars

\* provider audio, both interruption triggers, the pacing timers and time
PaceNext ==
  \/ (\E hasPhone \in BOOLEAN : Start(hasPhone)) /\ UNCHANGED paceVars
  \/ LeadLoaded /\ UNCHANGED paceVars
  \/ DelayFired /\ UNCHANGED paceVars
  \/ ElOpen /\ UNCHANGED paceVars
  \/ PacedAudio
  \/ ProviderInterruption /\ UNCHANGED paceVars
  \/ (\E isSpeech \in BOOLEAN : Media(isSpeech)) /\ UNCHANGED paceVars
  \/ PacedWake
  \/ PaceTick

PaceSpec ==
  Init /\ [][PaceNext /\ UNCHANGED <<poolVars, pingVars, leadVars, codecVars, dispatchVars, parseVars, drainVars, originVars, teardownVars, repeatVars>>]_vars

\* C32: a `media` frame that is not the first one is sent only when a full
\* pacing delay has passed since the frame before it
EveryFramePaced ==
  [][Len(sent') > Len(sent) /\ Len(sent) > 0 => gap = PaceTicks]_vars

(***************************************************************************)
(* Eviction, refresh and ownership of the pool's sockets                   *)
(***************************************************************************)
\* C33: a maintenance tick removes from the map and from the hot array exactly
\* the connections whose socket is closing or closed, that are older than
\* MAX_CONNECTION_AGE or (map only) idle for more than MAX_IDLE_TIME; it
\* closes those of them that were open, and leaves every other connection,
\* a hot one that is still connecting too, where it is (new hot connections
\* are appended behind the ones that stay).
TickEvictsExactly ==
  [][lastOp'.op = "tick" =>
       LET Gone(conn) == \/ readyState[conn.ws] \in {"CLOSING", "CLOSED"}
                         \/ (now - conn.createdAt) > MAX_CONNECTION_AGE
           Idle(conn) == (now - conn.lastUsed) > MAX_IDLE_TIME
           Stay == SelectSeq(hotConnections, LAMBDA conn : ~Gone(conn))
       IN /\ \A c \in CallIds :
               connections'[c] = IF connections[c] # NoConn
                                    /\ (Gone(connections[c]) \/ Idle(connections[c]))
                                 THEN NoConn ELSE connections[c]
          /\ Len(hotConnections') >= Len(Stay)
          /\ SubSeq(hotConnections', 1, Len(Stay)) = Stay
          /\ \A k \in (HotSockets \cup AssignedSockets) \ (HotSockets' \cup AssignedSockets') :
               readyState'[k] # "OPEN"]_vars

\* C34: after a full refresh no connection of the former hot array is in the
\* hot array, the socket of each of them has been closed, the map of assigned
\* connections is as before, and (credentials being set) HOT_POOL_SIZE new
\* sockets have been constructed for the hot array.
RefreshReplacesAll ==
  [][lastOp'.op = "refresh" =>
       /\ HotSockets \cap HotSockets' = {}
       /\ \A k \in HotSockets : readyState'[k] \in {"CLOSING", "CLOSED"}
       /\ connections' = connections
       /\ hasCreds => /\ wsCount' = wsCount + HOT_POOL_SIZE
                      /\ HotSockets' = (wsCount + 1)..wsCount']_vars

\* createHotConnection: the sockets constructed in this step for the hot
\* array (those of createNewConnection are the ones awaited by a cold acquire)
HotMade ==
  hotMade' = hotMade \cup {k \in (wsCount + 1)..wsCount' : \A p \in pendingCold' : p.ws # k}

\* createNewConnection: the socket constructed in this step for a call id
ColdMade ==
  coldMade' = coldMade \cup {[ws |-> p.ws, callSid |-> p.callSid] : p \in pendingCold' \ pendingCold}

\* the pool with failing sockets, recording where each socket came from
OriginNext == PoolNext /\ HotMade /\ ColdMade

OriginSpec ==
  Init /\ [][OriginNext /\ UNCHANGED <<sessVars, pingVars, leadVars, codecVars, dispatchVars, parseVars, drainVars, paceVars, teardownVars, repeatVars>>]_vars

\* C35: every open socket that createHotConnection constructed is in the hot
\* array or in the map of assigned connections
NoHotSocketLeaks ==
  \A k \in hotMade : readyState[k] = "OPEN" => k \in HotSockets \cup AssignedSockets

\* C36: of the sockets createNewConnection constructed for a call id at most
\* one is open, and each one that is open is the socket recorded for that call
\* id in the map of assigned connections
ColdSocketsRecordedOrClosed ==
  /\ \A c \in CallIds :
       Cardinality({m \in coldMade : m.callSid = c /\ readyState[m.ws] = "OPEN"}) <= 1
  /\ \A m \in coldMade :
       readyState[m.ws] = "OPEN" => connections[m.callSid].ws = m.ws

(***************************************************************************)
(* The Session after its teardown                                          *)
(***************************************************************************)
\* cleanup() has run, in this step or before
TornDown == tornDown' = (tornDown \/ lastOp'.op = "cleanup")

\* cleanup() runs for the telephony `stop` event and when the telephony socket
\* closes or fails: no telephony `start` or `media` event is handled after it
TelephonyOver == tornDown => lastOp'.op \notin {"start", "media"}

\* the provider socket has opened (a new socket starts out CONNECTING)
WasOpen ==
  wasOpen' = IF elState' = "OPEN" THEN TRUE
             ELSE IF elState' = "CONNECTING" THEN FALSE
             ELSE wasOpen

\* only a socket that has opened delivers provider messages
ProviderDelivers == lastOp'.op \in {"metadata", "interruption", "audio"} => wasOpen

\* the Session, with its teardown remembered
TeardownNext == SessionNext /\ TelephonyOver /\ ProviderDelivers /\ TornDown /\ WasOpen

TeardownSpec ==
  Init /\ [][TeardownNext /\ UNCHANGED <<poolVars, pingVars, leadVars, codecVars, dispatchVars, parseVars, drainVars, paceVars, originVars, repeatVars>>]_vars

\* C37: once cleanup() has run, whatever the Session was waiting for at that
\* moment, it has no provider socket that is connecting or open and it is not
\* connected
NoConnectionAfterTeardown ==
  tornDown => /\ elState \notin {"CONNECTING", "OPEN"}
              /\ ~isConnected

\* C38: once cleanup() has run, no `media` and no `clear` message is sent to
\* the telephony socket
SilentAfterTeardown ==
  [][tornDown => Len(sent') = Len(sent) /\ clearCount' = clearCount]_vars

\* C40: when the connection timeout fires on a Session that has been torn down,
\* or whose provider socket is closing or closed, it changes nothing and
\* throws nothing
TimeoutOnlyWhileWaiting ==
  [][(/\ lastOp'.op = "timeout"
      /\ tornDown \/ elState \in {"CLOSING", "CLOSED"})
     => /\ lastOp'.result = "none"
        /\ elState' = elState]_vars

(***************************************************************************)
(* A Session that is sent more than one `start` event                      *)
(***************************************************************************)
\* initializeElevenLabsConnection: `this.elevenLabsWs = new WebSocket(...)`,
\* unless the credentials are missing
NewWebSocket ==
  IF hasCreds
  THEN /\ provider' = Append(provider, "CONNECTING")
       /\ current' = Len(provider) + 1
  ELSE UNCHANGED <<provider, current>>

\* handleMessage, case 'start', with no test of what the Session already did
RepeatStart(hasPhone) ==
  /\ ~tornDown
  /\ starts < MaxStarts
  /\ starts' = starts + 1
  /\ IF hasPhone
     THEN loading' = loading + 1 /\ UNCHANGED <<provider, current>>
     ELSE NewWebSocket /\ UNCHANGED loading
  /\ lastOp' = Op("start", NoCall, 0, "none")
  /\ UNCHANGED <<delaying, teardownVars>>

\* a loadLeadData() settles: its .then callback arms a 100 ms timer
RepeatLeadLoaded ==
  /\ loading > 0
  /\ loading' = loading - 1
  /\ delaying' = delaying + 1
  /\ lastOp' = Op("lead", NoCall, 0, "none")
  /\ UNCHANGED <<provider, current, starts, teardownVars>>

\* a 100 ms timer fires
RepeatDelayFired ==
  /\ delaying > 0
  /\ delaying' = delaying - 1
  /\ NewWebSocket
  /\ lastOp' = Op("connect", NoCall, 0, "none")
  /\ UNCHANGED <<loading, starts, teardownVars>>

\* the `open` event of provider socket i
RepeatOpen(i) ==
  /\ provider[i] = "CONNECTING"
  /\ provider' = [provider EXCEPT ![i] = "OPEN"]
  /\ lastOp' = Op("el_open", NoCall, i, "none")
  /\ UNCHANGED <<current, loading, delaying, starts, teardownVars>>

\* the `close` event of provider socket i: the peer closed it, the handshake
\* failed, or a close() of the Session has completed
RepeatClose(i) ==
  /\ provider[i] \in {"CONNECTING", "OPEN", "CLOSING"}
  /\ provider' = [provider EXCEPT ![i] = "CLOSED"]
  /\ lastOp' = Op("el_close", NoCall, i, "none")
  /\ UNCHANGED <<current, loading, delaying, starts, teardownVars>>

\* cleanup(): close the socket this.elevenLabsWs refers to and drop the
\* reference; it runs for `stop` and again when the telephony socket closes
RepeatCleanup ==
  /\ tornDown' = TRUE
  /\ provider' = IF current # 0
                 THEN [provider EXCEPT ![current] = WsClose(provider[current])]
                 ELSE provider
  /\ current' = 0
  /\ lastOp' = Op("cleanup", NoCall, 0, "none")
  /\ UNCHANGED <<loading, delaying, starts, wasOpen>>

RepeatNext ==
  \/ \E hasPhone \in BOOLEAN : RepeatStart(hasPhone)
  \/ RepeatLeadLoaded
  \/ RepeatDelayFired
  \/ \E i \in 1..Len(provider) : RepeatOpen(i)
  \/ \E i \in 1..Len(provider) : RepeatClose(i)
  \/ RepeatCleanup

RepeatSpec ==
  Init /\ [][RepeatNext /\ UNCHANGED <<poolVars, sessVars, pingVars, leadVars, codecVars, dispatchVars, parseVars, drainVars, paceVars, originVars>>]_vars

\* C39: at most one provider socket of the Session is open, every open one is
\* the socket this.elevenLabsWs refers to, and after cleanup() none is open
OneProviderSocket ==
  /\ Cardinality({i \in 1..Len(provider) : provider[i] = "OPEN"}) <= 1
  /\ \A i \in 1..Len(provider) : provider[i] = "OPEN" => i = current
  /\ tornDown => \A i \in 1..Len(provider) : provider[i] # "OPEN"

====
